---- MODULE Spec2Model ----
(***************************************************************************)
(* Model of freeze_alert.py: check_freezing_conditions, the freeze event   *)
(* analyzer, together with the alert history it loads and saves.           *)
(*                                                                         *)
(* Strings are sequences of tokens, so that building an alert key          *)
(* (start_time + "_" + duration) and taking it apart again                 *)
(* (alert.split("_")[0]) are computed, not assumed.  A token is a record   *)
(* [c, n]:                                                                 *)
(*    c = "t"  a well-formed naive ISO-8601 datetime, n hours after the    *)
(*             epoch of the model                                          *)
(*    c = "Z"  the UTC designator (replaced by "+00:00" before parsing)    *)
(*    c = "_"  an underscore                                               *)
(*    c = "x"  a character that belongs to no datetime                     *)
(*    c = "d"  the decimal digits of the integer n                         *)
(* Datetimes are counted in hours.                                         *)
(***************************************************************************)
EXTENDS Integers, Sequences, FiniteSets, TLC

\* ------------------------------------------------------------------ bounds
\* longest forecast of the temperature-format and timestamp families
MaxLen == 3
\* longest forecast of the frost-sequence family (room for three events)
MaxFrostLen == 5
\* longest forecast of the specification with repeated invocations
MaxRerunLen == 2
\* invocations of the program in the specification with repeated invocations
MaxRuns == 2
\* the clock stops advancing after this many days
MaxNowDays == 15

\* ------------------------------------------------------- program constants
FreezeThreshold == 32
DefaultTemp == 100
PruneDays == 14
DayHours == 24

\* ------------------------------------------------------------------ strings
Tok(c, n) == [c |-> c, n |-> n]
TimeTok(h) == Tok("t", h)
ZTok == Tok("Z", 0)
Underscore == Tok("_", 0)
JunkTok == Tok("x", 0)

\* str(n) for the integer n
StrOfInt(n) == << Tok("d", n) >>

\* the empty string ""
EmptyStr == << >>

\* s.split("_")[0]: the part of s before its first underscore (all of s if none)
RECURSIVE SplitFirst(_)
SplitFirst(s) ==
  IF s = << >> THEN << >>
  ELSE IF Head(s) = Underscore THEN << >>
  ELSE << Head(s) >> \o SplitFirst(Tail(s))

\* datetime.fromisoformat(s.replace("Z", "+00:00")): ok = FALSE stands for the
\* ValueError; aware tells an offset-aware datetime from a naive one
ParseFailure == [ok |-> FALSE, aware |-> FALSE, t |-> 0]
FromIsoFormat(s) ==
  IF Len(s) = 1 /\ s[1].c = "t" THEN [ok |-> TRUE, aware |-> FALSE, t |-> s[1].n]
  ELSE IF Len(s) = 2 /\ s[1].c = "t" /\ s[2] = ZTok
       THEN [ok |-> TRUE, aware |-> TRUE, t |-> s[1].n]
  ELSE ParseFailure

\* a - b on datetimes raises TypeError when one is naive and the other aware;
\* so does a > b
Comparable(a, b) == a.ok /\ b.ok /\ a.aware = b.aware

\* timedelta.days of a difference of d hours: the floor of d / 24
TimedeltaDays(d) == d \div DayHours

\* -------------------------------------------------------------- temperatures
\* The value under "temperature" of a forecast period:
\*   kind = "absent"  the key is missing
\*   kind = "null"    None
\*   kind = "num"     the number v
\*   kind = "str"     a string
\*   kind = "dict"    a dict; inner tells what is under its "value" key
\*                    ("absent", "null" or "num" with the number v)
Temperature(kind, inner, v) == [kind |-> kind, inner |-> inner, v |-> v]
NumTemp(v) == Temperature("num", "none", v)
AbsentTemp == Temperature("absent", "none", 0)
NullTemp == Temperature("null", "none", 0)
StrTemp == Temperature("str", "none", 0)
DictTemp(inner, v) == Temperature("dict", inner, v)

\* period.get("temperature", 100), then temp.get("value", 100) for a dict
GetTemperature(period) ==
  LET temp == period.temperature IN
  IF temp.kind = "absent" THEN NumTemp(DefaultTemp)
  ELSE IF temp.kind = "dict"
       THEN IF temp.inner = "absent" THEN NumTemp(DefaultTemp)
            ELSE IF temp.inner = "null" THEN NullTemp
            ELSE NumTemp(temp.v)
  ELSE temp

\* temp <= 32 raises TypeError unless temp is a number
CanCompare(temp) == temp.kind = "num"
\* mutant of IsFreezing: the comparison written temp < 32
IsFreezingStrict(temp) == temp.v < FreezeThreshold
IsFreezing(temp) == temp.v <= FreezeThreshold

\* period.get("startTime", "")
AbsentStart == [present |-> FALSE, s |-> EmptyStr]
StartAt(s) == [present |-> TRUE, s |-> s]
GetStartTime(period) ==
  IF period.startTime.present THEN period.startTime.s ELSE EmptyStr

Period(temp, start) == [temperature |-> temp, startTime |-> start]


\* ------------------------------------------------------------------- inputs
RECURSIVE SeqsOfLen(_, _)
SeqsOfLen(S, n) ==
  IF n = 0 THEN { << >> }
  ELSE { Append(q, x) : q \in SeqsOfLen(S, n - 1), x \in S }

\* the non-empty sequences over S of length lo..hi (main returns before the
\* analyzer when the forecast is empty)
SeqsBetween(S, lo, hi) == UNION { SeqsOfLen(S, n) : n \in lo..hi }

T0 == << TimeTok(0) >>
T24 == << TimeTok(DayHours) >>

\* every shape of "temperature", in an hourly forecast starting at hour 0
TempFormats ==
  { NumTemp(28), NumTemp(FreezeThreshold), NumTemp(FreezeThreshold + 1),
    AbsentTemp, NullTemp, StrTemp,
    DictTemp("num", 28), DictTemp("absent", 0), DictTemp("null", 0) }
Hourly(temps) ==
  [k \in 1..Len(temps) |-> Period(temps[k], StartAt(<< TimeTok(k - 1) >>))]
FormatForecasts == { Hourly(ts) : ts \in SeqsBetween(TempFormats, 1, MaxLen) }

\* every shape of "startTime", over a freezing and a mild temperature
PlainTemps == { NumTemp(28), NumTemp(FreezeThreshold + 1) }
StartFormats ==
  { AbsentStart, StartAt(T0), StartAt(T24), StartAt(T0 \o << ZTok >>),
    StartAt(<< JunkTok >>) }
StampForecasts ==
  SeqsBetween({ Period(t, s) : t \in PlainTemps, s \in StartFormats }, 1, MaxLen)

\* forecasts long enough for three freeze events, a day apart or not
FrostForecasts ==
  SeqsBetween({ Period(t, s) : t \in PlainTemps, s \in { StartAt(T0), StartAt(T24) } },
              MaxLen + 1, MaxFrostLen)

\* the forecast [32,32,40,30,30,30], hourly from hour 0
ExampleForecast ==
  Hourly(<< NumTemp(32), NumTemp(32), NumTemp(40), NumTemp(30), NumTemp(30),
            NumTemp(30) >>)

Forecasts ==
  FormatForecasts \cup StampForecasts \cup FrostForecasts \cup { ExampleForecast }

\* the short forecasts of the specification with repeated invocations
RerunForecasts ==
  SeqsBetween({ Period(t, s) : t \in PlainTemps,
                               s \in { AbsentStart, StartAt(T0), StartAt(T24) } },
              1, MaxRerunLen)

\* ------------------------------------------------------------------ history
\* a value of first_frost_alerted / second_frost_alerted: None or a string
None == [null |-> TRUE, s |-> EmptyStr]
Str(s) == [null |-> FALSE, s |-> s]

\* Python truthiness of such a value: None and "" are falsy
Truthy(v) == ~v.null /\ v.s # EmptyStr

History(first, second, ext) ==
  [first_frost_alerted |-> first, second_frost_alerted |-> second,
   extended_freeze_alerts |-> ext]

\* load_alert_history: the document of the file, or the default one
DefaultHistory == History(None, None, << >>)
NoFile == [exists |-> FALSE, doc |-> DefaultHistory]
LoadAlertHistory(f) == IF f.exists THEN f.doc ELSE DefaultHistory

\* ------------------------------------------------------------------- events
FreezeEvent(start_time, duration_hours, min_temp, freeze_start) ==
  [start_time |-> start_time, duration_hours |-> duration_hours,
   min_temp |-> min_temp, freeze_start |-> freeze_start]

\* the f-string f"{freeze['start_time']}_{freeze['duration_hours']}"
AlertKey(freeze) ==
  freeze.start_time \o << Underscore >> \o StrOfInt(freeze.duration_hours)

\* the file left by an earlier invocation at hour 0 on the forecast
\* [28F at hour 0, 28F at hour 1]
SeasonFile ==
  [exists |-> TRUE,
   doc |-> History(Str(T0), None, << AlertKey(FreezeEvent(T0, 2, 28, 0)) >>)]

Alert(type, event) == [type |-> type, event |-> event]


\* -------------------------------------------------------------------- state
VARIABLES
  file,              \* alert_history.json
  now,               \* the clock, datetime.now(), in hours
  pc,                \* where the invocation is: "idle", "scan", "first",
                     \* "second", "extended", "cleanup", "save", "done"
                     \* (the analyzer has returned), "raised_scan",
                     \* "raised_cleanup" (it raised, and main with it),
                     \* "sent", "not_configured", "smtp_failed" (how
                     \* send_email_alert ended)
  forecast_periods,  \* the argument of check_freezing_conditions
  history,           \* the loaded history, mutated in place
  i,                 \* the cursor of the scan (0-based, as in the code)
  frost_events,      \* the first and second frost candidates
  extended_freezes,  \* the extended-freeze candidates
  freeze_events,     \* every freeze_event dict the scan has built, in order
  alerts,            \* the list being returned
  e,                 \* position of the emission loop in extended_freezes
  loaded,            \* the history as load_alert_history returned it
  prev,              \* the previous invocation: its forecast, its alerts,
                     \* whether it saved its history, how it ended
  runs               \* invocations started so far

vars == << file, now, pc, forecast_periods, history, i, frost_events,
           extended_freezes, freeze_events, alerts, e, loaded, prev, runs >>

NoPrev ==
  [ran |-> FALSE, saved |-> FALSE, periods |-> << >>, alerts |-> << >>,
   ended |-> "idle"]

Init ==
  /\ file \in { NoFile, SeasonFile }
  /\ now = 0
  /\ pc = "idle"
  /\ forecast_periods = << >>
  /\ history = DefaultHistory
  /\ i = 0
  /\ frost_events = << >>
  /\ extended_freezes = << >>
  /\ freeze_events = << >>
  /\ alerts = << >>
  /\ e = 1
  /\ loaded = DefaultHistory
  /\ prev = NoPrev
  /\ runs = 0

\* the ways send_email_alert ends: the message was sent (line 370), the
\* credentials are not configured (lines 317-324), SMTP raised (lines 373-378)
MailOutcomes == { "sent", "not_configured", "smtp_failed" }

\* the process is not running (at "done" it is not running when only the
\* analyzer is looked at)
Stopped == pc \in { "idle", "done", "raised_scan", "raised_cleanup" } \cup MailOutcomes

\* time passes between invocations (the analyzer reads the clock once, at
\* line 297)
Tick ==
  /\ Stopped
  /\ \E d \in { PruneDays, PruneDays + 1 } :
       /\ now + d * DayHours <= MaxNowDays * DayHours
       /\ now' = now + d * DayHours
  /\ UNCHANGED << file, pc, forecast_periods, history, i, frost_events,
                  extended_freezes, freeze_events, alerts, e, loaded, prev, runs >>

\* main calls check_freezing_conditions(forecast): lines 191-199
Start(inputs, maxRuns) ==
  /\ Stopped
  /\ runs < maxRuns
  /\ \E ps \in inputs : forecast_periods' = ps
  /\ history' = LoadAlertHistory(file)
  /\ loaded' = LoadAlertHistory(file)
  /\ prev' = [ran |-> runs > 0, saved |-> pc \in { "done" } \cup MailOutcomes,
              periods |-> forecast_periods, alerts |-> alerts, ended |-> pc]
  /\ runs' = runs + 1
  /\ alerts' = << >>
  /\ frost_events' = << >>
  /\ extended_freezes' = << >>
  /\ freeze_events' = << >>
  /\ i' = 0
  /\ e' = 1
  /\ pc' = "scan"
  /\ UNCHANGED << file, now >>

\* ----------------------------------------------------------------- the scan
\* forecast_periods[k] with the code's 0-based index
At(ps, k) == ps[k + 1]

\* the inner loop, lines 216-226: the index j at which it stops, or -1 when
\* next_temp <= 32 raises TypeError
RECURSIVE FreezeEnd(_, _)
FreezeEnd(ps, j) ==
  IF j < Len(ps)
  THEN LET next_temp == GetTemperature(At(ps, j)) IN
       IF ~CanCompare(next_temp) THEN -1
       ELSE IF IsFreezing(next_temp) THEN FreezeEnd(ps, j + 1)
       ELSE j
  ELSE j

\* min(...) of lines 232-236
Smallest(S) == CHOOSE x \in S : \A y \in S : x <= y
MinTemp(ps, freeze_start, freeze_hours) ==
  LET last == IF freeze_start + freeze_hours < Len(ps)
              THEN freeze_start + freeze_hours ELSE Len(ps)
  IN Smallest({ GetTemperature(At(ps, k)).v : k \in freeze_start..(last - 1) })

\* lines 247-249 raise (ValueError from fromisoformat, TypeError from the
\* subtraction of a naive and an aware datetime)
DayDifferenceRaises(first_str, time_str) ==
  ~Comparable(FromIsoFormat(first_str), FromIsoFormat(time_str))

\* mutant of ADayAfter: the comparison written .days > 1
ADayAfterStrict(first_str, time_str) ==
  TimedeltaDays(FromIsoFormat(time_str).t - FromIsoFormat(first_str).t) > 1

\* (current_time - first_time).days >= 1
ADayAfter(first_str, time_str) ==
  TimedeltaDays(FromIsoFormat(time_str).t - FromIsoFormat(first_str).t) >= 1

\* mutant of AppendsSecondFrost: the except branch written as pass
AppendsSecondFrostFailClosed(first_str, time_str) ==
  IF DayDifferenceRaises(first_str, time_str) THEN FALSE
  ELSE ADayAfter(first_str, time_str)

\* lines 246-252: whether the event is appended to a one-element frost_events
AppendsSecondFrost(first_str, time_str) ==
  IF DayDifferenceRaises(first_str, time_str) THEN TRUE
  ELSE ADayAfter(first_str, time_str)

\* lines 242-252
ClassifyFrost(frosts, freeze_event) ==
  IF frosts = << >> THEN << freeze_event >>
  ELSE IF Len(frosts) = 1
       THEN IF AppendsSecondFrost(frosts[1].start_time, freeze_event.start_time)
            THEN Append(frosts, freeze_event)
            ELSE frosts
  ELSE frosts

\* lines 239-240
ClassifyExtended(extended, freeze_event) ==
  IF freeze_event.duration_hours > 1 THEN Append(extended, freeze_event)
  ELSE extended

\* after an iteration of the outer loop: back to its test at line 200
AfterIteration(next_i) ==
  IF next_i < Len(forecast_periods) THEN "scan" ELSE "first"

\* one iteration of the outer loop, lines 200-257
ScanStep ==
  /\ pc = "scan"
  /\ i < Len(forecast_periods)
  /\ LET period == At(forecast_periods, i)
         temp == GetTemperature(period)
         time_str == GetStartTime(period)
         j == FreezeEnd(forecast_periods, i + 1)
     IN
     IF ~CanCompare(temp) \/ (IsFreezing(temp) /\ j = -1)
     THEN /\ pc' = "raised_scan"
          /\ UNCHANGED << i, frost_events, extended_freezes, freeze_events >>
     ELSE IF IsFreezing(temp)
     THEN LET freeze_hours == j - i
              freeze_event ==
                FreezeEvent(time_str, freeze_hours,
                            MinTemp(forecast_periods, i, freeze_hours), i)
          IN /\ extended_freezes' = ClassifyExtended(extended_freezes, freeze_event)
             /\ frost_events' = ClassifyFrost(frost_events, freeze_event)
             /\ freeze_events' = Append(freeze_events, freeze_event)
             /\ i' = j
             /\ pc' = AfterIteration(j)
     ELSE /\ i' = i + 1
          /\ pc' = AfterIteration(i + 1)
          /\ UNCHANGED << frost_events, extended_freezes, freeze_events >>
  /\ UNCHANGED << file, now, forecast_periods, history, alerts, e, loaded,
                  prev, runs >>


\* --------------------------------------------------------------- the alerts
\* mutant of AppendAlert: alerts.insert(0, ...)
PrependAlert(list, alert) == << alert >> \o list

\* alerts.append(...)
AppendAlert(list, alert) == Append(list, alert)

\* the guard of line 262 / line 272 on a history field
NotYetAlerted(field) == ~Truthy(field)

\* lines 262-269
FirstFrostAlert ==
  /\ pc = "first"
  /\ IF frost_events # << >> /\ NotYetAlerted(history.first_frost_alerted)
     THEN LET event == frost_events[1] IN
          /\ alerts' = AppendAlert(alerts, Alert("FIRST FROST", event))
          /\ history' = [history EXCEPT !.first_frost_alerted = Str(event.start_time)]
     ELSE UNCHANGED << alerts, history >>
  /\ pc' = "second"
  /\ UNCHANGED << file, now, forecast_periods, i, frost_events, extended_freezes,
                  freeze_events, e, loaded, prev, runs >>

\* lines 272-279; then the for statement of line 282 is entered
SecondFrostAlert ==
  /\ pc = "second"
  /\ IF Len(frost_events) > 1 /\ NotYetAlerted(history.second_frost_alerted)
     THEN LET event == frost_events[2] IN
          /\ alerts' = AppendAlert(alerts, Alert("SECOND FROST", event))
          /\ history' = [history EXCEPT !.second_frost_alerted = Str(event.start_time)]
     ELSE UNCHANGED << alerts, history >>
  /\ pc' = IF extended_freezes = << >> THEN "cleanup" ELSE "extended"
  /\ UNCHANGED << file, now, forecast_periods, i, frost_events, extended_freezes,
                  freeze_events, e, loaded, prev, runs >>

\* mutant of AlreadyAlerted: only the most recent key is looked at
AlreadyAlertedLast(alert_key, list) ==
  list # << >> /\ list[Len(list)] = alert_key

\* alert_key not in history.get("extended_freeze_alerts", []) is false
AlreadyAlerted(alert_key, list) == \E k \in 1..Len(list) : list[k] = alert_key

\* one iteration of the loop of lines 282-293
ExtendedFreezeAlert ==
  /\ pc = "extended"
  /\ e <= Len(extended_freezes)
  /\ LET freeze == extended_freezes[e]
         alert_key == AlertKey(freeze)
     IN IF ~AlreadyAlerted(alert_key, history.extended_freeze_alerts)
        THEN /\ alerts' = AppendAlert(alerts, Alert("EXTENDED FREEZE", freeze))
             /\ history' = [history EXCEPT !.extended_freeze_alerts =
                                              Append(@, alert_key)]
        ELSE UNCHANGED << alerts, history >>
  /\ e' = e + 1
  /\ pc' = IF e < Len(extended_freezes) THEN "extended" ELSE "cleanup"
  /\ UNCHANGED << file, now, forecast_periods, i, frost_events, extended_freezes,
                  freeze_events, loaded, prev, runs >>

\* ------------------------------------------------------------------ pruning
\* cutoff = datetime.now() - timedelta(days=14), a naive datetime
Cutoff(clock) == clock - PruneDays * DayHours

\* the datetime the filter of line 300 reads out of a key
KeyTime(alert) == FromIsoFormat(SplitFirst(alert))

\* the filter of line 300 raises on this key: ValueError from fromisoformat,
\* TypeError from comparing an aware datetime with the naive cutoff
FilterRaises(alert) ==
  alert # EmptyStr /\ (~KeyTime(alert).ok \/ KeyTime(alert).aware)

\* not alert or datetime.fromisoformat(...) > cutoff
Kept(alert, cutoff) == alert = EmptyStr \/ KeyTime(alert).t > cutoff

\* lines 296-301
CleanUp ==
  /\ pc = "cleanup"
  /\ LET list == history.extended_freeze_alerts
         cutoff == Cutoff(now)
         Test(alert) == Kept(alert, cutoff)
     IN IF \E k \in 1..Len(list) : FilterRaises(list[k])
        THEN /\ pc' = "raised_cleanup"
             /\ UNCHANGED history
        ELSE /\ history' = [history EXCEPT !.extended_freeze_alerts =
                                              SelectSeq(list, Test)]
             /\ pc' = "save"
  /\ UNCHANGED << file, now, forecast_periods, i, frost_events, extended_freezes,
                  freeze_events, alerts, e, loaded, prev, runs >>

\* save_alert_history(history); return alerts: lines 303-304
Save ==
  /\ pc = "save"
  /\ file' = [exists |-> TRUE, doc |-> history]
  /\ pc' = "done"
  /\ UNCHANGED << now, forecast_periods, history, i, frost_events,
                  extended_freezes, freeze_events, alerts, e, loaded, prev, runs >>

\* ------------------------------------------------------------ the delivery
\* how send_email_alert ends, given whether SENDER_EMAIL and SENDER_PASSWORD
\* are set and whether the SMTP exchange succeeds
SendOutcome(configured, smtp_ok) ==
  IF ~configured THEN "not_configured"
  ELSE IF smtp_ok THEN "sent"
  ELSE "smtp_failed"

\* main, lines 477-508: once check_freezing_conditions has returned, it calls
\* send_email_alert(alerts, ...), which touches neither the history nor the
\* file and raises nothing
SendEmailAlert ==
  /\ pc = "done"
  /\ \E configured \in BOOLEAN, smtp_ok \in BOOLEAN :
       pc' = SendOutcome(configured, smtp_ok)
  /\ UNCHANGED << file, now, forecast_periods, history, i, frost_events,
                  extended_freezes, freeze_events, alerts, e, loaded, prev, runs >>

\* ----------------------------------------------------------- specifications
Analyze ==
  \/ ScanStep
  \/ FirstFrostAlert
  \/ SecondFrostAlert
  \/ ExtendedFreezeAlert
  \/ CleanUp
  \/ Save

\* one invocation, over every forecast family
Next ==
  \/ Tick
  \/ Start(Forecasts, 1)
  \/ Analyze

Spec == Init /\ [][Next]_vars

\* repeated invocations, over the short forecasts
NextRerun ==
  \/ Tick
  \/ Start(RerunForecasts, MaxRuns)
  \/ Analyze

SpecRerun == Init /\ [][NextRerun]_vars

\* main is invoked again once it has returned or raised: at "done" it is
\* still on its way to send_email_alert
StartMain ==
  /\ pc # "done"
  /\ Start(RerunForecasts, MaxRuns)

\* repeated invocations of main: the analyzer, then the delivery
NextMain ==
  \/ Tick
  \/ StartMain
  \/ Analyze
  \/ SendEmailAlert

SpecMain == Init /\ [][NextMain]_vars


\* ================================================================== claims
\* the scan ran to its end
ScanDone ==
  pc \in { "first", "second", "extended", "cleanup", "save", "done", "raised_cleanup" }

\* the positions of the alerts of a type in a list
AlertsOfType(list, type) == { k \in 1..Len(list) : list[k].type = type }

\* the event keys of the EXTENDED FREEZE alerts of a list
ExtendedKeys(list) ==
  { list[k].event.start_time \o << Underscore >> \o StrOfInt(list[k].event.duration_hours) :
      k \in AlertsOfType(list, "EXTENDED FREEZE") }

\* this invocation analyzes the forecast of the previous one, starting from
\* the history the previous one saved
SameForecastAgain ==
  prev.ran /\ prev.saved /\ prev.periods = forecast_periods /\ pc # "idle"

\* C1: idempotence across invocations. An invocation on the same samples as
\* the previous one, starting from the history the previous one persisted,
\* emits no FIRST FROST alert, no SECOND FROST alert and no EXTENDED FREEZE
\* alert for an event key the previous invocation alerted.
C1_Idempotent ==
  SameForecastAgain =>
    /\ AlertsOfType(alerts, "FIRST FROST") = {}
    /\ AlertsOfType(alerts, "SECOND FROST") = {}
    /\ ExtendedKeys(alerts) \cap ExtendedKeys(prev.alerts) = {}

\* the hours by which the start of freeze event b follows that of event a,
\* when both start times parse and can be subtracted
StartsComparable(a, b) ==
  LET ta == FromIsoFormat(a.start_time)
      tb == FromIsoFormat(b.start_time)
  IN ta.ok /\ tb.ok /\ ta.aware = tb.aware
HoursAfter(a, b) == FromIsoFormat(b.start_time).t - FromIsoFormat(a.start_time).t

\* C2 (as claimed): when the start times of the first two freeze events of a
\* scan can be compared, a second-frost candidate is recorded only if it is
\* the second event and starts at least 24 hours after the first; otherwise
\* the scan records none, whatever events follow.
C2_OnlyTheNextEvent ==
  (ScanDone /\ Len(freeze_events) >= 2
            /\ StartsComparable(freeze_events[1], freeze_events[2]))
  => (Len(frost_events) = 2 =>
        /\ frost_events[2] = freeze_events[2]
        /\ HoursAfter(freeze_events[1], freeze_events[2]) >= 24)

\* event k of the scan passes the test against the first event: it starts at
\* least 24 hours later, or the two start times cannot be compared
PassesSecondFrostTest(k) ==
  \/ ~StartsComparable(freeze_events[1], freeze_events[k])
  \/ HoursAfter(freeze_events[1], freeze_events[k]) >= 24

\* C2 (amended): every freeze event discovered after the first one is tested
\* against the first until one passes; the second-frost candidate of a scan
\* is the earliest later event that starts at least 24 hours after the first
\* event or whose start time cannot be compared with the first's, and there
\* is none exactly when no later event passes.
C2_EarliestLaterEvent ==
  ScanDone =>
    LET passing == { k \in 2..Len(freeze_events) : PassesSecondFrostTest(k) } IN
    IF passing = {}
    THEN Len(frost_events) <= 1
    ELSE /\ Len(frost_events) = 2
         /\ frost_events[2] =
              freeze_events[CHOOSE k \in passing : \A m \in passing : k <= m]

\* a scan whose second event fails the test and whose third one passes it
C2_Witness ==
  /\ ScanDone
  /\ Len(freeze_events) >= 3
  /\ StartsComparable(freeze_events[1], freeze_events[2])
  /\ StartsComparable(freeze_events[1], freeze_events[3])
  /\ Len(frost_events) = 2
  /\ frost_events[2] = freeze_events[3]

\* what a key's embedded start time says about its age at the hour clock
EmbeddedTime(alert) == FromIsoFormat(SplitFirst(alert))
OlderThan14Days(alert, clock) ==
  EmbeddedTime(alert).ok /\ EmbeddedTime(alert).t < clock - 14 * 24
Within14DaysOrLater(alert, clock) ==
  EmbeddedTime(alert).ok /\ EmbeddedTime(alert).t >= clock - 14 * 24

\* C3: pruning. When the pruning step completes, the list holds no key whose
\* embedded start time is more than 14 days before the current instant, and
\* every key that was in the list with an embedded start time within the last
\* 14 days or in the future is still in it.
C3_Pruning ==
  [][(pc = "cleanup" /\ pc' = "save") =>
       LET before == history.extended_freeze_alerts
           after == history'.extended_freeze_alerts
       IN /\ \A k \in 1..Len(after) : ~OlderThan14Days(after[k], now)
          /\ \A k \in 1..Len(before) :
               Within14DaysOrLater(before[k], now)
                 => \E m \in 1..Len(after) : after[m] = before[k]]_vars

\* every temperature of the forecast can be compared with 32
AllTemperaturesUsable ==
  \A k \in 1..Len(forecast_periods) :
    GetTemperature(forecast_periods[k]).kind = "num"

\* C4: no fatal conditions. Whatever the start times of the samples and the
\* keys of the loaded history, the analyzer runs to the end: it aborts neither
\* in the scan nor in the pruning step. (Stated for the forecasts whose
\* temperatures are all usable; C5 is about the others.)
C4_NoFatal ==
  AllTemperaturesUsable => pc \notin { "raised_scan", "raised_cleanup" }

\* the temperature of the sample is missing or unparseable
Unparseable(period) ==
  \/ period.temperature.kind \in { "absent", "null", "str" }
  \/ period.temperature.kind = "dict" /\ period.temperature.inner \in { "absent", "null" }

\* C5: temperature defaulting. A sample whose temperature is missing or
\* unparseable belongs to no freeze event (it neither starts nor extends one)
\* and never aborts the scan.
C5_Defaulted ==
  /\ pc # "raised_scan"
  /\ \A n \in 1..Len(freeze_events) :
       \A k \in freeze_events[n].freeze_start
                  .. (freeze_events[n].freeze_start + freeze_events[n].duration_hours - 1) :
         ~Unparseable(At(forecast_periods, k))

\* C6: history monotonicity. A frost field that is non-null when the
\* invocation loads the history holds the same value throughout the
\* invocation.
C6_Monotone ==
  /\ ~loaded.first_frost_alerted.null
       => history.first_frost_alerted = loaded.first_frost_alerted
  /\ ~loaded.second_frost_alerted.null
       => history.second_frost_alerted = loaded.second_frost_alerted


\* sample k (0-based) of the forecast is at or below freezing
Freezes(k) ==
  LET temp == GetTemperature(At(forecast_periods, k)) IN
  temp.kind = "num" /\ temp.v <= 32

\* the samples at which a maximal run of freezing samples starts
RunStarts ==
  { k \in 0..(Len(forecast_periods) - 1) : Freezes(k) /\ (k = 0 \/ ~Freezes(k - 1)) }

\* samples s .. s+n-1 are a maximal run of freezing samples
MaximalRun(s, n) ==
  /\ n >= 1
  /\ s + n <= Len(forecast_periods)
  /\ \A k \in s..(s + n - 1) : Freezes(k)
  /\ s = 0 \/ ~Freezes(s - 1)
  /\ s + n = Len(forecast_periods) \/ ~Freezes(s + n)

\* C7: run grouping. When the scan completes, the freeze events it discovered
\* are exactly the maximal runs of consecutive samples at or below 32, in
\* order: each event starts at its run's first sample and carries that
\* sample's timestamp, the run's length and the run's minimum temperature; no
\* sample belongs to two events; no freezing sample, no event.
C7_MaximalRuns ==
  ScanDone =>
    /\ Len(freeze_events) = Cardinality(RunStarts)
    /\ \A n \in 1..Len(freeze_events) :
         LET ev == freeze_events[n]
             run == ev.freeze_start .. (ev.freeze_start + ev.duration_hours - 1)
         IN /\ MaximalRun(ev.freeze_start, ev.duration_hours)
            /\ ev.start_time = GetStartTime(At(forecast_periods, ev.freeze_start))
            /\ \E k \in run : GetTemperature(At(forecast_periods, k)).v = ev.min_temp
            /\ \A k \in run : GetTemperature(At(forecast_periods, k)).v >= ev.min_temp
            /\ n < Len(freeze_events) =>
                 ev.freeze_start + ev.duration_hours <= freeze_events[n + 1].freeze_start

\* the scan of [32,32,40,30,30,30] found the events (T0, 2) and (T0+3h, 3)
C7_Witness ==
  /\ ScanDone
  /\ forecast_periods = ExampleForecast
  /\ freeze_events = << FreezeEvent(T0, 2, 32, 0),
                        FreezeEvent(<< TimeTok(3) >>, 3, 30, 3) >>

\* the place of an alert type in the emission order
Rank(type) ==
  IF type = "FIRST FROST" THEN 1 ELSE IF type = "SECOND FROST" THEN 2 ELSE 3

\* C8: alert ordering. The list holds at most one FIRST FROST and at most one
\* SECOND FROST alert, FIRST FROST before SECOND FROST, both before every
\* EXTENDED FREEZE alert, and the EXTENDED FREEZE alerts in the order in which
\* the scan discovered their events.
C8_Ordered ==
  /\ Cardinality(AlertsOfType(alerts, "FIRST FROST")) <= 1
  /\ Cardinality(AlertsOfType(alerts, "SECOND FROST")) <= 1
  /\ \A a, b \in 1..Len(alerts) :
       a < b =>
         /\ Rank(alerts[a].type) <= Rank(alerts[b].type)
         /\ (alerts[a].type = "EXTENDED FREEZE" /\ alerts[b].type = "EXTENDED FREEZE")
              => alerts[a].event.freeze_start < alerts[b].event.freeze_start

\* a returned list with all three types, whose first frost event is also an
\* extended freeze
C8_Witness ==
  /\ pc = "done"
  /\ Len(alerts) = 4
  /\ alerts[1].type = "FIRST FROST"
  /\ alerts[2].type = "SECOND FROST"
  /\ alerts[3].type = "EXTENDED FREEZE"
  /\ alerts[4].type = "EXTENDED FREEZE"
  /\ alerts[3].event = alerts[1].event

\* the two start times do not both parse, or cannot be subtracted
CannotCompare(a_str, b_str) ==
  LET ta == FromIsoFormat(a_str)
      tb == FromIsoFormat(b_str)
  IN ~ta.ok \/ ~tb.ok \/ ta.aware # tb.aware

\* the iteration about to run discovers a freeze event: the sample under the
\* cursor freezes and the temperatures of its run can all be compared
DiscoversEvent ==
  /\ pc = "scan"
  /\ Freezes(i)
  /\ FreezeEnd(forecast_periods, i + 1) # -1

\* C9: fail-open timestamp comparison. When one frost event is recorded and
\* the start time of the event being discovered, or of the first event,
\* cannot be parsed (or the two cannot be subtracted), the scan does not
\* abort, records the new event as the second-frost candidate and goes on
\* with the samples after the run.
C9_FailOpen ==
  [][(/\ DiscoversEvent
      /\ Len(frost_events) = 1
      /\ CannotCompare(frost_events[1].start_time,
                       GetStartTime(At(forecast_periods, i))))
     => /\ pc' \in { "scan", "first" }
        /\ Len(frost_events') = 2
        /\ frost_events'[1] = frost_events[1]
        /\ frost_events'[2].freeze_start = i
        /\ frost_events'[2].start_time = GetStartTime(At(forecast_periods, i))
        /\ i' = i + frost_events'[2].duration_hours
        /\ i' > i]_vars

\* a completed scan whose second-frost candidate could not be compared with
\* the first frost
C9_Witness ==
  /\ ScanDone
  /\ Len(frost_events) = 2
  /\ CannotCompare(frost_events[1].start_time, frost_events[2].start_time)

\* no element occurs twice in the list
NoDuplicates(list) ==
  \A a, b \in 1..Len(list) : a # b => list[a] # list[b]

\* C10: extended-freeze emission rule. For each candidate in scan order an
\* EXTENDED FREEZE alert is emitted iff its key start_time + "_" +
\* duration_hours is not in history.extended_freeze_alerts at that moment,
\* and the key is then appended; so a run never emits two EXTENDED FREEZE
\* alerts with the same key, and leaves no duplicate key in the list when the
\* loaded list had none.
C10_EmissionRule ==
  /\ [][pc = "extended" =>
          LET freeze == extended_freezes[e]
              key == freeze.start_time \o << Underscore >> \o StrOfInt(freeze.duration_hours)
              list == history.extended_freeze_alerts
          IN IF \E k \in 1..Len(list) : list[k] = key
             THEN alerts' = alerts /\ history' = history
             ELSE /\ alerts' = Append(alerts, Alert("EXTENDED FREEZE", freeze))
                  /\ history' = [history EXCEPT !.extended_freeze_alerts =
                                                  Append(list, key)]]_vars
  /\ [](/\ Cardinality(ExtendedKeys(alerts))
             = Cardinality(AlertsOfType(alerts, "EXTENDED FREEZE"))
        /\ NoDuplicates(loaded.extended_freeze_alerts)
             => NoDuplicates(history.extended_freeze_alerts))

\* the emission loop has met a loaded key and, twice, a key of this run
C10_Witness ==
  /\ pc = "cleanup"
  /\ loaded.extended_freeze_alerts # << >>
  /\ Len(extended_freezes) = 2
  /\ AlertKey(extended_freezes[1]) = AlertKey(extended_freezes[2])
  /\ Len(alerts) = 1
  /\ alerts[1].type = "EXTENDED FREEZE"
  /\ Len(history.extended_freeze_alerts) = 2


\* the (type, event key) pairs of the alerts of a list
AlertedPairs(list) ==
  { << list[k].type,
       list[k].event.start_time \o << Underscore >> \o StrOfInt(list[k].event.duration_hours) >> :
      k \in 1..Len(list) }

\* send_email_alert is attempted only once the mutated history is on disk
SavedBeforeDelivery ==
  pc \in MailOutcomes => file.exists /\ file.doc = history

\* an analyzer that raised left the file as it loaded it, and main never
\* reached send_email_alert
NothingOnAbort ==
  pc \in { "raised_scan", "raised_cleanup" } => LoadAlertHistory(file) = loaded

\* the delivery of the previous invocation failed, and this invocation has
\* the same forecast
RetryAfterFailedDelivery ==
  /\ prev.ran
  /\ prev.ended \in { "not_configured", "smtp_failed" }
  /\ prev.periods = forecast_periods
  /\ pc # "idle"

\* C11: persist-before-deliver ordering. In an invocation of main with a
\* non-empty forecast the mutated history is persisted before send_email_alert
\* is attempted, and a failed delivery does not roll it back: an alert whose
\* delivery failed is not emitted again by a later invocation with the same
\* forecast. If the analyzer aborts before save_alert_history, the history is
\* not persisted and no email is attempted.
C11_PersistBeforeDeliver ==
  /\ SavedBeforeDelivery
  /\ NothingOnAbort
  /\ RetryAfterFailedDelivery =>
       AlertedPairs(alerts) \cap AlertedPairs(prev.alerts) = {}

\* the parts of C11 about the order of the steps alone
C11_OrderOnly == SavedBeforeDelivery /\ NothingOnAbort

====
